---- MODULE Spec2Model ----
(***************************************************************************)
(* A model of swirl_lm's scalar transport orchestrator                     *)
(* (swirl_lm/equations/scalars.py, class Scalars): the boundary-condition  *)
(* and source registries, prestep, prediction_step and correction_step.    *)
(*                                                                         *)
(* Floating-point values are modelled as exact rationals <<n, d>> in       *)
(* lowest terms, so "equal within floating-point tolerance" reads as       *)
(* equality.  The grid is one line of NCells cells whose outer HaloWidth   *)
(* cells on each side are halo cells; every field operation of the         *)
(* orchestrator itself is pointwise (tf.nest.map_structure).               *)
(***************************************************************************)
EXTENDS Integers, Sequences, FiniteSets, TLC

\* ------------------------------------------------------------------ bounds
MaxScalars == 2
NCells == 4

\* params.halo_width (scalars.py line 138)
HaloWidth == 1

\* --------------------------------------------------------------- rationals
Abs(x) == IF x < 0 THEN -x ELSE x

RECURSIVE Gcd(_, _)
Gcd(a, b) == IF b = 0 THEN a ELSE Gcd(b, a % b)

Rat(n, d) ==
  LET s == IF d < 0 THEN -1 ELSE 1
      g == Gcd(Abs(n), Abs(d))
  IN  IF n = 0 THEN <<0, 1>> ELSE <<(s * n) \div g, (s * d) \div g>>

Zero == <<0, 1>>
One == <<1, 1>>
Int2Rat(i) == <<i, 1>>

RAdd(a, b) == Rat(a[1] * b[2] + b[1] * a[2], a[2] * b[2])
RNeg(a) == <<-a[1], a[2]>>
RMul(a, b) == Rat(a[1] * b[1], a[2] * b[2])
\* tf.math.divide / tf.math.reciprocal: the divisor is a density, never zero.
RDiv(a, b) == Rat(a[1] * b[2], a[2] * b[1])

RSub(a, b) == RAdd(a, RNeg(b))
RLeq(a, b) == a[1] * b[2] <= b[1] * a[2]
\* tf.math.floordiv followed by the cast to int32: the quotient rounded down.
RFloorDiv(a, b) == RDiv(a, b)[1] \div RDiv(a, b)[2]

\* ------------------------------------------------------------------ fields
Cells == 1..NCells
HaloCells == {c \in Cells : c <= HaloWidth \/ c > NCells - HaloWidth}
InteriorCells == Cells \ HaloCells

Uniform(v) == [c \in Cells |-> v]
Ramp(v) == [c \in Cells |-> RAdd(v, Int2Rat(c))]

\* tf.zeros_like, tf.ones_like
ZerosLike(f) == [c \in DOMAIN f |-> Zero]
OnesLike(f) == [c \in DOMAIN f |-> One]

\* tf.nest.map_structure over two fields of one shape
FAdd(f, g) == [c \in DOMAIN f |-> RAdd(f[c], g[c])]
FMul(f, g) == [c \in DOMAIN f |-> RMul(f[c], g[c])]
FDiv(f, g) == [c \in DOMAIN f |-> RDiv(f[c], g[c])]
FNeg(f) == [c \in DOMAIN f |-> RNeg(f[c])]
FScale(a, f) == [c \in DOMAIN f |-> RMul(a, f[c])]

\* common_ops.average: the arithmetic mean of two fields
Average(f, g) == [c \in DOMAIN f |-> RMul(<<1, 2>>, RAdd(f[c], g[c]))]

\* -------------------------------------------------------------------- maps
\* A FlowFieldMap: a function from keys to values.  A key is <<prefix, name,
\* face>>: Key("rho") is 'rho', RhoKey(sc) is 'rho_<sc>', SrcKey(sc) is
\* 'src_<sc>', BcKey(sc, face) is the boundary value of sc on that face.
Key(name) == <<"", name, 0>>
RhoKey(sc) == <<"rho_", sc, 0>>
SrcKey(sc) == <<"src_", sc, 0>>
BcKey(sc, face) == <<"bc_", sc, face>>

EmptyMap == <<>>
\* The absent value (Python's None).
None == <<>>

\* dict.update
Update(d, e) ==
  [k \in (DOMAIN d) \cup (DOMAIN e) |-> IF k \in DOMAIN e THEN e[k] ELSE d[k]]

Single(k, v) == [x \in {k} |-> v]

\* -------------------------------------------------------------- the scalars
ScalarUniverse == {"theta", "q_t", "Y"}
\* The names the closure dispatch is exercised with: the above and names of
\* the other specific rules.
DispatchUniverse == ScalarUniverse \cup {"theta_li", "e_t"}
\* Variables the configuration holds boundary conditions for besides scalars.
OtherVariables == {"u"}

\* Sequences without repetition
NoRepeat(s) == \A i, j \in DOMAIN s : i # j => s[i] # s[j]
ScalarLists ==
  {s \in UNION {[1..n -> ScalarUniverse] : n \in 1..MaxScalars} : NoRepeat(s)}

Range(s) == {s[i] : i \in DOMAIN s}

\* An index of the scalar, used to make the data of the scalars differ.
Ord(sc) == CASE sc = "theta" -> 1 [] sc = "q_t" -> 2 [] sc = "Y" -> 3 [] OTHER -> 4

\* ----------------------------------------------------- boundary conditions
\* One face's boundary condition is <<kind, value>>; a variable's is <<low
\* face, high face>> (one axis is modelled, the three axes are treated alike).
\* NoBc is Python's None: no condition on that face, the halo comes from the
\* neighbour (periodic-implied).
NoBc == <<"NONE", Zero>>
Dirichlet(v) == <<"DIRICHLET", v>>
Neumann(v) == <<"NEUMANN", v>>

\* params.bc: the configuration holds a boundary condition for every variable,
\* transported scalars and others alike; all three kinds occur.
ParamsBc ==
  [v \in DispatchUniverse \cup OtherVariables |->
     CASE v = "theta" -> <<Dirichlet(Int2Rat(7)), Neumann(One)>>
       [] v = "q_t" -> <<NoBc, NoBc>>
       [] v = "Y" -> <<Neumann(Zero), Dirichlet(Int2Rat(5))>>
       [] OTHER -> <<Dirichlet(Zero), Dirichlet(Zero)>>]

\* halo_exchange.inplace_halo_exchange: the halo cells of f are replaced per
\* the boundary condition, the interior is left as it is.  Without a condition
\* the halo takes the neighbour's boundary-adjacent interior data (the one
\* replica is its own periodic neighbour).
InplaceHaloExchange(f, bc_f) ==
  LET lo == HaloWidth + 1
      hi == NCells - HaloWidth
  IN  [c \in DOMAIN f |->
         IF c <= HaloWidth
           THEN CASE bc_f[1][1] = "DIRICHLET" -> bc_f[1][2]
                  [] bc_f[1][1] = "NEUMANN" -> RAdd(f[lo], RNeg(bc_f[1][2]))
                  [] OTHER -> f[hi - (HaloWidth - c)]
         ELSE IF c > NCells - HaloWidth
           THEN CASE bc_f[2][1] = "DIRICHLET" -> bc_f[2][2]
                  [] bc_f[2][1] = "NEUMANN" -> RAdd(f[hi], bc_f[2][2])
                  [] OTHER -> f[lo + (c - hi - 1)]
         ELSE f[c]]

\* --------------------------------------------------------------- registries
\* Mutant: every entry of params.bc is registered.
InitBcUnfiltered(p) == p.bc

\* Scalars.__init__, self._bc: the entries of params.bc whose variable is a
\* transported scalar.
InitBc(p) ==
  [v \in {w \in DOMAIN p.bc : w \in Range(p.transport_scalars_names)} |-> p.bc[v]]

\* potential_temperature.POTENTIAL_TEMPERATURE_VARNAME, humidity.HUMIDITY_VARNAME
PotentialTemperatureVarname == {"theta", "theta_li"}
HumidityVarname == {"q_t", "q_r", "q_s"}

\* Mutant: the total-energy rule is the last one and takes every other name.
ScalarModelOfWithoutFallback(scalar_name) ==
  IF scalar_name \in PotentialTemperatureVarname THEN "PotentialTemperature"
  ELSE IF scalar_name \in HumidityVarname THEN "Humidity"
  ELSE "TotalEnergy"

\* Scalars.__init__: the closure variant of one scalar, by its name.
ScalarModelOf(scalar_name) ==
  IF scalar_name \in PotentialTemperatureVarname THEN "PotentialTemperature"
  ELSE IF scalar_name \in HumidityVarname THEN "Humidity"
  ELSE IF scalar_name = "e_t" THEN "TotalEnergy"
  ELSE "ScalarGeneric"

\* Scalars.__init__, self._scalar_model: one closure per transported scalar.
InitScalarModel(p) ==
  [v \in Range(p.transport_scalars_names) |-> ScalarModelOf(v)]

\* Scalars.__init__, self._source: None for every solved scalar.
InitSource(p) == [v \in Range(p.transport_scalars_names) |-> None]

\* BoundaryConditionKeysHelper.update_helper_variable_from_additional_states:
\* for every registered variable and face that has a boundary condition, the
\* value additional_states holds for it replaces the registered value; the
\* kind is kept, and entries of other variables are not pulled in.
UpdateBcFromAdditionalStates(additional_states, bc_reg) ==
  [v \in DOMAIN bc_reg |->
     [face \in 1..2 |->
        IF BcKey(v, face) \in DOMAIN additional_states /\ bc_reg[v][face][1] # "NONE"
          THEN <<bc_reg[v][face][1], additional_states[BcKey(v, face)]>>
          ELSE bc_reg[v][face]]]

\* SourceKeysHelper.update_helper_variable_from_additional_states: the source
\* fields additional_states holds, keyed by the name of their variable.
SourcesFromAdditionalStates(additional_states) ==
  [v \in {k[2] : k \in {x \in DOMAIN additional_states : x[1] = "src_"}} |->
     additional_states[SrcKey(v)]]

\* Scalars.prestep: the two registries after the call.
PrestepBc(bc_reg, additional_states) ==
  UpdateBcFromAdditionalStates(additional_states, bc_reg)

\* Mutant: the registry is made anew from the sources given.
PrestepSourceReplace(source_reg, additional_states) ==
  LET new == SourcesFromAdditionalStates(additional_states)
  IN  [v \in (DOMAIN source_reg) \cup (DOMAIN new) |->
         IF v \in DOMAIN new THEN new[v] ELSE None]

\* Mutant: a source given again is added to the registered one.
PrestepSourceAccumulate(source_reg, additional_states) ==
  LET new == SourcesFromAdditionalStates(additional_states)
  IN  [v \in (DOMAIN source_reg) \cup (DOMAIN new) |->
         IF v \notin DOMAIN new THEN source_reg[v]
         ELSE IF v \in DOMAIN source_reg /\ source_reg[v] # None
           THEN FAdd(source_reg[v], new[v])
         ELSE new[v]]

PrestepSource(source_reg, additional_states) ==
  Update(source_reg, SourcesFromAdditionalStates(additional_states))

\* ----------------------------------------------------------- configuration
CN == "TIME_SCHEME_CN_EXPLICIT_ITERATION"
RK3 == "TIME_SCHEME_RK3"

\* The scheme of every scalar is CN, but for the scalar at position bad (0:
\* none).
SchemeOf(names, bad) == [i \in DOMAIN names |-> IF i = bad THEN RK3 ELSE CN]

Params ==
  {[transport_scalars_names |-> names,
    scheme |-> SchemeOf(names, bad),
    solver_mode |-> mode,
    use_sgs |-> sgs,
    dt |-> <<1, 10>>,
    bc |-> ParamsBc] :
     names \in ScalarLists, bad \in 0..MaxScalars,
     mode \in {"ANELASTIC", "LOW_MACH"}, sgs \in BOOLEAN}

\* ------------------------------------------------------------ collaborators
\* One call in the trace of an operation: the function called, the variable it
\* is called for, the field handed to it (or returned by it) and what else the
\* call carries.
Call(fn, key, f, aux) == [fn |-> fn, key |-> key, f |-> f, aux |-> aux]

\* params.diffusivity(sc_name): the molecular diffusivity of the scalar.
Diffusivity(sc) == Rat(Ord(sc), 100)

\* SgsModel.turbulent_diffusivity: an eddy diffusivity from the scalar and the
\* velocity.
TurbulentDiffusivity(sc_mid, u, v, w) ==
  FScale(<<1, 4>>, FAdd(FMul(u, u), OnesLike(sc_mid)))

\* What the source of a closure takes from the scalars of the states it is
\* given, its own and the others.
Coupling(states) ==
  FAdd(states[Key("theta")],
       FAdd(FScale(Int2Rat(2), states[Key("q_t")]), FScale(Int2Rat(4), states[Key("Y")])))

\* The closure bound to a scalar (convection_fn, diffusion_fn, source_fn): the
\* terms are fields shaped like phi.  Closure 0 returns zero terms; closure 1
\* returns terms that differ from each other and depend on phi, on the velocity,
\* on the 'diffusivity' helper state and on the scalars of the states.
ClosureTerms(k, sc, phi, states, helper_states) ==
  IF k = 0
    THEN [conv |-> <<ZerosLike(phi), ZerosLike(phi), ZerosLike(phi)>>,
          diff |-> <<ZerosLike(phi), ZerosLike(phi), ZerosLike(phi)>>,
          source |-> ZerosLike(phi)]
    ELSE [conv |-> <<FMul(states[Key("u")], phi), Uniform(Int2Rat(2)), Ramp(Int2Rat(4))>>,
          diff |-> <<FMul(helper_states[Key("diffusivity")], phi),
                     Uniform(Int2Rat(16)), Uniform(Int2Rat(32))>>,
          source |-> FAdd(Uniform(Int2Rat(64 + Ord(sc))), Coupling(states))]

\* The cells the immersed boundary marks solid: ib_interior_mask is 0 there.
SolidCells(m) ==
  IF Key("ib_interior_mask") \in DOMAIN m
    THEN {c \in Cells : m[Key("ib_interior_mask")][c] = Zero}
    ELSE {}

\* ImmersedBoundaryMethod.ib_rhs_name
IbRhsName(rho_sc_key) == <<"rhs_rho_", rho_sc_key[2], 0>>

\* ImmersedBoundaryMethod.update_forcing: in the solid the right-hand side is
\* replaced by a forcing that damps the conservative variable.
IbUpdateForcing(rho_sc_key, rho_phi, helper_states) ==
  LET rhs_name == IbRhsName(rho_sc_key)
  IN  Single(rhs_name,
        [c \in Cells |-> IF c \in SolidCells(helper_states)
                           THEN RNeg(rho_phi[c])
                           ELSE helper_states[rhs_name][c]])

\* The value the immersed boundary holds a primitive variable at in the solid.
IbTarget == Int2Rat(10)

\* ImmersedBoundaryMethod.update_states: the primitive variables of the map
\* take the target value in the solid.
IbUpdateStates(fields, additional_states, bc_reg) ==
  [k \in DOMAIN fields |->
     IF k[1] = ""
       THEN [c \in Cells |-> IF c \in SolidCells(additional_states)
                               THEN IbTarget ELSE fields[k][c]]
       ELSE fields[k]]

\* ComponentsDebug.update_scalar_terms: the terms under debug names.
DbgKey(term, sc) == <<term, sc, 0>>
UpdateScalarTerms(sc, terms, diff_t) ==
  LET base == [k \in {DbgKey(t, sc) : t \in DOMAIN terms} |-> terms[k[1]]]
  IN  IF diff_t = None THEN base
      ELSE Update(base, Single(DbgKey("dbg_diff_t", sc), diff_t))

\* ------------------------------------------------------------ halo exchange
\* Mutant: the exchange is left out where it would change nothing.
ExchangeScalarHalosIfChanged(bc_reg, f, name) ==
  [value |-> InplaceHaloExchange(f, bc_reg[name]),
   calls |-> IF InplaceHaloExchange(f, bc_reg[name]) = f
               THEN <<>>
               ELSE <<Call("inplace_halo_exchange", Key(name), f, bc_reg[name])>>]

\* Mutant: the exchange is made twice.
ExchangeScalarHalosTwice(bc_reg, f, name) ==
  [value |-> InplaceHaloExchange(InplaceHaloExchange(f, bc_reg[name]), bc_reg[name]),
   calls |-> <<Call("inplace_halo_exchange", Key(name), f, bc_reg[name]),
               Call("inplace_halo_exchange", Key(name),
                    InplaceHaloExchange(f, bc_reg[name]), bc_reg[name])>>]

\* Scalars.exchange_scalar_halos: the halo exchange of f with the registered
\* boundary condition of the variable.
ExchangeScalarHalos(bc_reg, f, name) ==
  [value |-> InplaceHaloExchange(f, bc_reg[name]),
   calls |-> <<Call("inplace_halo_exchange", Key(name), f, bc_reg[name])>>]

\* ------------------------------------------------------------ rhs assembly
\* Mutant: the convection terms are added, not subtracted.
ScalarTransportEquationPlusConv(conv_x, conv_y, conv_z, diff_x, diff_y, diff_z, src) ==
  FAdd(FAdd(FAdd(FAdd(conv_x, conv_y), conv_z),
            FAdd(FAdd(diff_x, diff_y), diff_z)), src)

\* Scalars._scalar_update.scalar_function.scalar_transport_equation
ScalarTransportEquation(conv_x, conv_y, conv_z, diff_x, diff_y, diff_z, src) ==
  FAdd(FAdd(FNeg(FAdd(FAdd(conv_x, conv_y), conv_z)),
            FAdd(FAdd(diff_x, diff_y), diff_z)), src)

\* Mutant: an absent source counts as a source of one everywhere.
RegisteredSourceOnes(source_reg, sc, states) ==
  IF source_reg[sc] # None THEN source_reg[sc] ELSE OnesLike(states[Key("rho")])

\* Scalars._scalar_update: the registered source, or zeros shaped like density.
RegisteredSource(source_reg, sc, states) ==
  IF source_reg[sc] # None THEN source_reg[sc] ELSE ZerosLike(states[Key("rho")])

\* scalar_function: the terms of the closure t with the registered source
\* source_ext; source_all is their sum.
WithSource(t, source_ext) ==
  [conv |-> t.conv, diff |-> t.diff, source_fn |-> t.source,
   source_ext |-> source_ext, source_all |-> FAdd(source_ext, t.source)]

\* scalar_function: conv, diff, source_additional and source_all.
RhsTerms(c, sc, phi, states, helper_states) ==
  WithSource(ClosureTerms(c.closure, sc, phi, states, helper_states),
             RegisteredSource(c.source, sc, states))

\* scalar_function: its three calls on the closure of the scalar.
ClosureCalls(sc, phi, tm) ==
  << Call("convection_fn", Key(sc), phi, tm.conv),
     Call("diffusion_fn", Key(sc), phi, tm.diff),
     Call("source_fn", Key(sc), phi, tm.source_fn) >>

\* scalar_function, dbg: the seven terms.
DebugTerms(tm) ==
  [conv_x |-> tm.conv[1], conv_y |-> tm.conv[2], conv_z |-> tm.conv[3],
   diff_x |-> tm.diff[1], diff_y |-> tm.diff[2], diff_z |-> tm.diff[3],
   source |-> tm.source_all]

\* scalar_function: rhs, before the immersed boundary sees it.
Rhs(tm) ==
  ScalarTransportEquation(tm.conv[1], tm.conv[2], tm.conv[3],
                          tm.diff[1], tm.diff[2], tm.diff[3], tm.source_all)

\* scalar_function: the helper states handed to update_forcing, rhs under its
\* boundary-specific name and the masks additional_states holds.
IbHelperStates(sc, helper_states, rhs) ==
  Update(Single(IbRhsName(RhoKey(sc)), rhs),
         [k \in {Key("ib_interior_mask"), Key("ib_boundary")} \cap DOMAIN helper_states |->
            helper_states[k]])

\* scalar_function with an immersed boundary: rhs as update_forcing returns it.
ScalarFunctionIb(sc, phi, tm, rhs, rho_phi, ib_helper) ==
  [value |-> IbUpdateForcing(RhoKey(sc), rho_phi, ib_helper)[IbRhsName(RhoKey(sc))],
   calls |-> ClosureCalls(sc, phi, tm) \o
             << Call("scalar_transport_equation", Key(sc), rhs, tm.source_ext),
                Call("update_forcing", RhoKey(sc), rho_phi, ib_helper) >>]

\* scalar_function, not dbg, from rhs on.
ScalarFunctionRhs(c, sc, phi, states, helper_states, tm, rhs) ==
  IF c.ib
    THEN ScalarFunctionIb(sc, phi, tm, rhs, FMul(states[Key("rho")], phi),
                          IbHelperStates(sc, helper_states, rhs))
    ELSE [value |-> rhs,
          calls |-> ClosureCalls(sc, phi, tm) \o
                    << Call("scalar_transport_equation", Key(sc), rhs, tm.source_ext) >>]

\* Mutant: the debug assembly too goes through the right-hand side and the
\* immersed boundary before it returns its terms.
ScalarFunctionOfDebugLate(c, sc, phi, states, helper_states, debug, tm) ==
  IF debug
    THEN [value |-> DebugTerms(tm),
          calls |-> ScalarFunctionRhs(c, sc, phi, states, helper_states, tm, Rhs(tm)).calls]
    ELSE ScalarFunctionRhs(c, sc, phi, states, helper_states, tm, Rhs(tm))

\* scalar_function, from the terms on.
ScalarFunctionOf(c, sc, phi, states, helper_states, debug, tm) ==
  IF debug
    THEN [value |-> DebugTerms(tm), calls |-> ClosureCalls(sc, phi, tm)]
    ELSE ScalarFunctionRhs(c, sc, phi, states, helper_states, tm, Rhs(tm))

\* Scalars._scalar_update(...)(phi): the right-hand side of the scalar, or in
\* debug mode its seven terms, and the calls made; c is the context of the step.
ScalarFunction(c, sc, phi, states, helper_states, debug) ==
  ScalarFunctionOf(c, sc, phi, states, helper_states, debug,
                   RhsTerms(c, sc, phi, states, helper_states))

\* ------------------------------------------------------------ time advance
\* time_advance_cn_explicit, ANELASTIC: the scalar itself is advanced and
\* exchanged.
AdvanceAnelastic(c, sc, rhs, new_sc) ==
  LET ex == ExchangeScalarHalos(c.bc, new_sc, sc)
  IN  [value |-> Single(Key(sc), ex.value),
       calls |-> <<Call("time_advance_cn_explicit", Key(sc), new_sc, rhs)>> \o ex.calls]

\* Mutant: the scalar is recomputed with the density of the previous step.
AdvanceConservativeOldRho(c, sc, rhs, new_sc) ==
  LET ex == ExchangeScalarHalos(c.bc, FDiv(new_sc, c.states_0[Key("rho")]), sc)
  IN  [value |-> Update(Single(RhoKey(sc), new_sc), Single(Key(sc), ex.value)),
       calls |-> <<Call("time_advance_cn_explicit", RhoKey(sc), new_sc, rhs)>> \o ex.calls]

\* time_advance_cn_explicit, otherwise: rho_<scalar> is advanced, and the
\* scalar is rho_<scalar> / rho, exchanged.
AdvanceConservative(c, sc, rhs, new_sc) ==
  LET ex == ExchangeScalarHalos(c.bc, FDiv(new_sc, c.states[Key("rho")]), sc)
  IN  [value |-> Update(Single(RhoKey(sc), new_sc), Single(Key(sc), ex.value)),
       calls |-> <<Call("time_advance_cn_explicit", RhoKey(sc), new_sc, rhs)>> \o ex.calls]

\* Mutant: the old conservative variable is read from states, not states_0.
TimeAdvanceCnExplicitFromStates(c, rhs, sc) ==
  IF c.params.solver_mode = "ANELASTIC"
    THEN AdvanceAnelastic(c, sc, rhs,
           FAdd(c.states[Key(sc)],
                FScale(c.params.dt,
                       FMul(rhs, FDiv(OnesLike(c.states[Key("rho")]), c.states[Key("rho")])))))
    ELSE AdvanceConservative(c, sc, rhs,
           FAdd(c.states[RhoKey(sc)], FScale(c.params.dt, rhs)))

\* Mutant: the anelastic advance divides by the density of the previous step
\* and the conservative advance leaves the time step out.
TimeAdvanceCnExplicitWrongFactor(c, rhs, sc) ==
  IF c.params.solver_mode = "ANELASTIC"
    THEN AdvanceAnelastic(c, sc, rhs,
           FAdd(c.states_0[Key(sc)],
                FScale(c.params.dt,
                       FMul(rhs, FDiv(OnesLike(c.states_0[Key("rho")]),
                                      c.states_0[Key("rho")])))))
    ELSE AdvanceConservative(c, sc, rhs, FAdd(c.states_0[RhoKey(sc)], rhs))

\* Scalars.prediction_step.time_advance_cn_explicit: the updated variables of
\* one scalar.
TimeAdvanceCnExplicit(c, rhs, sc) ==
  IF c.params.solver_mode = "ANELASTIC"
    THEN AdvanceAnelastic(c, sc, rhs,
           FAdd(c.states_0[Key(sc)],
                FScale(c.params.dt,
                       FMul(rhs, FDiv(OnesLike(c.states[Key("rho")]), c.states[Key("rho")])))))
    ELSE AdvanceConservative(c, sc, rhs,
           FAdd(c.states_0[RhoKey(sc)], FScale(c.params.dt, rhs)))

\* Scalars.prediction_step: the mid-point states.
StatesMid(names, states, states_0) ==
  Update(Update(states,
                [k \in {Key("rho"), Key("rho_thermal")} |-> Average(states[k], states_0[k])]),
         [k \in {Key(names[i]) : i \in DOMAIN names} |-> Average(states[k], states_0[k])])

\* prediction_step: the diffusivity of the scalar, the molecular one alone or
\* with the eddy diffusivity.
ScalarDiffusivity(c, sc_name, sc_mid, diff_t) ==
  IF c.params.use_sgs
    THEN FAdd(FScale(Diffusivity(sc_name), OnesLike(diff_t)), diff_t)
    ELSE FScale(Diffusivity(sc_name), OnesLike(sc_mid))

\* Mutant: the computed diffusivity is entered after additional_states.
HelperStatesComputedLast(c, diffusivity) ==
  Update(c.additional_states, Single(Key("diffusivity"), diffusivity))

\* prediction_step: helper_states.
HelperStates(c, diffusivity) ==
  Update(Single(Key("diffusivity"), diffusivity), c.additional_states)

SgsCalls(c, sc_name, sc_mid, diff_t) ==
  IF c.params.use_sgs
    THEN <<Call("turbulent_diffusivity", Key(sc_name), sc_mid, diff_t)>>
    ELSE <<>>

\* prediction_step, the loop body once the scalar is advanced: with a debug
\* hook the terms of a second, debug assembly join updated_scalars.
PredictionScalarDone(c, sc_name, sc_mid, diff_t, rhs, adv, terms, dbg_terms) ==
  IF c.dbg
    THEN [raised |-> FALSE,
          value |-> Update(adv.value, dbg_terms),
          calls |-> SgsCalls(c, sc_name, sc_mid, diff_t) \o rhs.calls \o adv.calls
                    \o terms.calls
                    \o <<Call("update_scalar_terms", Key(sc_name), terms.value, dbg_terms)>>]
    ELSE [raised |-> FALSE, value |-> adv.value,
          calls |-> SgsCalls(c, sc_name, sc_mid, diff_t) \o rhs.calls \o adv.calls]

PredictionScalarAdvance(c, sc_name, sc_mid, diff_t, rhs, terms) ==
  PredictionScalarDone(c, sc_name, sc_mid, diff_t, rhs,
                       TimeAdvanceCnExplicit(c, rhs.value, sc_name), terms,
                       UpdateScalarTerms(sc_name, terms.value,
                                         IF c.params.use_sgs THEN diff_t ELSE None))

\* prediction_step, the loop body from the scheme on: another scheme than CN
\* raises.
PredictionScalarScheme(c, i, sc_name, states_mid, sc_mid, diff_t, helper_states) ==
  IF c.params.scheme[i] # CN
    THEN [raised |-> TRUE, value |-> EmptyMap,
          calls |-> SgsCalls(c, sc_name, sc_mid, diff_t)]
    ELSE PredictionScalarAdvance(c, sc_name, sc_mid, diff_t,
           ScalarFunction(c, sc_name, sc_mid, states_mid, helper_states, FALSE),
           ScalarFunction(c, sc_name, sc_mid, states_mid, helper_states, TRUE))

PredictionScalarSgs(c, i, sc_name, states_mid, sc_mid, diff_t) ==
  PredictionScalarScheme(c, i, sc_name, states_mid, sc_mid, diff_t,
                         HelperStates(c, ScalarDiffusivity(c, sc_name, sc_mid, diff_t)))

PredictionScalarMid(c, i, sc_name, states_mid) ==
  PredictionScalarSgs(c, i, sc_name, states_mid, states_mid[Key(sc_name)],
                      TurbulentDiffusivity(states_mid[Key(sc_name)], c.states[Key("u")],
                                           c.states[Key("v")], c.states[Key("w")]))

\* Scalars.prediction_step, the body of the loop for the scalar at position i:
\* what it adds to updated_scalars and the calls it makes, or the error.
PredictionScalar(c, i) ==
  PredictionScalarMid(c, i, c.params.transport_scalars_names[i],
                      StatesMid(c.params.transport_scalars_names, c.states, c.states_0))

\* Scalars.prediction_step, the loop over the transported scalars from
\* position i on: it stops at the first error.
RECURSIVE PredictionLoop(_, _, _, _)
\* Mutant: the scalars after this one read its updated values from the states.
PredictionLoopStepChained(c, i, updated_scalars, calls, one) ==
  IF one.raised
    THEN [raised |-> TRUE, value |-> EmptyMap, calls |-> calls \o one.calls]
    ELSE PredictionLoop([c EXCEPT !.states = Update(c.states, one.value),
                                  !.states_0 = Update(c.states_0, one.value)],
                        i + 1, Update(updated_scalars, one.value), calls \o one.calls)

PredictionLoopStep(c, i, updated_scalars, calls, one) ==
  IF one.raised
    THEN [raised |-> TRUE, value |-> EmptyMap, calls |-> calls \o one.calls]
    ELSE PredictionLoop(c, i + 1, Update(updated_scalars, one.value), calls \o one.calls)

PredictionLoop(c, i, updated_scalars, calls) ==
  IF i > Len(c.params.transport_scalars_names)
    THEN [raised |-> FALSE, value |-> updated_scalars, calls |-> calls]
    ELSE PredictionLoopStep(c, i, updated_scalars, calls, PredictionScalar(c, i))

\* Mutant: the corrected scalars are never asked of the immersed boundary.
PredictionFinishWithoutIb(c, loop) == loop

\* prediction_step after the loop: the immersed boundary, if there is one,
\* corrects the updated scalars.
PredictionFinish(c, loop) ==
  IF loop.raised THEN loop
  ELSE IF c.ib
    THEN [raised |-> FALSE,
          value |-> IbUpdateStates(loop.value, c.additional_states, c.bc),
          calls |-> loop.calls \o
                    <<Call("update_states", Key("updated_scalars"), loop.value, c.bc)>>]
  ELSE loop

\* Mutant: _scalar_update stores the default it makes for an absent source.
SourceAfterScalarUpdateStored(source_reg, sc, states) ==
  [source_reg EXCEPT ![sc] = RegisteredSource(source_reg, sc, states)]

\* Scalars._scalar_update: self._source after the call.  The registered source
\* or its default is bound to the local name source; the registry is only read.
SourceAfterScalarUpdate(source_reg, sc, states) == source_reg

\* Scalars.prediction_step: self._source after the loop from position i on.
\* _scalar_update is called for every scalar up to and including the first
\* whose scheme raises.
RECURSIVE SourceAfterLoop(_, _, _, _)
SourceAfterLoop(c, i, states_mid, source_reg) ==
  IF i > Len(c.params.transport_scalars_names) THEN source_reg
  ELSE IF c.params.scheme[i] # CN
    THEN SourceAfterScalarUpdate(source_reg, c.params.transport_scalars_names[i],
                                 states_mid)
  ELSE SourceAfterLoop(c, i + 1, states_mid,
         SourceAfterScalarUpdate(source_reg, c.params.transport_scalars_names[i],
                                 states_mid))

\* Scalars.prediction_step: self._source when the call ends.
SourceAfterPrediction(c) ==
  SourceAfterLoop(c, 1, StatesMid(c.params.transport_scalars_names, c.states, c.states_0),
                  c.source)

\* Scalars.prediction_step: what it returns or raises, and the calls it makes.
PredictionStep(c) == PredictionFinish(c, PredictionLoop(c, 1, EmptyMap, <<>>))

\* Mutant: the halos are exchanged before the immersed boundary corrects.
CorrectionScalarExchangeFirst(c, sc_name, sc_div) ==
  LET ex == ExchangeScalarHalos(c.bc, sc_div, sc_name)
  IN  [value |-> IF c.ib
                   THEN IbUpdateStates(Single(Key(sc_name), ex.value),
                                       c.additional_states, c.bc)
                   ELSE Single(Key(sc_name), ex.value),
       calls |-> ex.calls \o
                 (IF c.ib THEN <<Call("update_states", Key(sc_name), ex.value, c.bc)>>
                          ELSE <<>>)]

\* correction_step, the loop body from the division on.
CorrectionScalar(c, sc_name, sc_div) ==
  LET ex == ExchangeScalarHalos(c.bc,
              IF c.ib
                THEN IbUpdateStates(Single(Key(sc_name), sc_div),
                                    c.additional_states, c.bc)[Key(sc_name)]
                ELSE sc_div,
              sc_name)
  IN  [value |-> Single(Key(sc_name), ex.value),
       calls |-> (IF c.ib THEN <<Call("update_states", Key(sc_name), sc_div, c.bc)>>
                          ELSE <<>>) \o ex.calls]

\* Scalars.correction_step, the loop over the transported scalars from
\* position i on.  states_0 is deleted on entry.
RECURSIVE CorrectionLoop(_, _, _, _)
CorrectionLoopStep(c, i, scalars, calls, one) ==
  CorrectionLoop(c, i + 1, Update(scalars, one.value), calls \o one.calls)

CorrectionLoop(c, i, scalars, calls) ==
  IF i > Len(c.params.transport_scalars_names)
    THEN [raised |-> FALSE, value |-> scalars, calls |-> calls]
    ELSE CorrectionLoopStep(c, i, scalars, calls,
           CorrectionScalar(c, c.params.transport_scalars_names[i],
             FDiv(c.states[RhoKey(c.params.transport_scalars_names[i])],
                  c.states[Key("rho")])))

\* Mutant: while states_0 holds a density, the scalar is recomputed with it.
CorrectionStepWithStates0(c) ==
  IF Key("rho") \in DOMAIN c.states_0
    THEN CorrectionLoop([c EXCEPT !.states = Update(c.states,
                                      Single(Key("rho"), c.states_0[Key("rho")]))],
                        1, EmptyMap, <<>>)
    ELSE CorrectionLoop(c, 1, EmptyMap, <<>>)

CorrectionStep(c) == CorrectionLoop(c, 1, EmptyMap, <<>>)

\* ------------------------------------------------------------------- inputs
\* The additional_states maps a call may be given: boundary values, external
\* sources, the masks of the immersed boundary and a diffusivity entry, present
\* or absent.
AdditionalStatesSeq ==
  << EmptyMap,
     Update(Single(BcKey("theta", 1), Int2Rat(9)), Single(SrcKey("theta"), Uniform(One))),
     Update(Update(Single(BcKey("Y", 2), Int2Rat(4)), Single(BcKey("u", 1), One)),
            Update(Update(Single(SrcKey("q_t"), Ramp(Zero)),
                          Single(SrcKey("Y"), Uniform(Int2Rat(2)))),
                   Single(SrcKey("u"), Uniform(One)))),
     Single(Key("diffusivity"), Uniform(Int2Rat(9))),
     Update(Single(Key("ib_interior_mask"),
                   [c \in Cells |-> IF c = HaloWidth + 1 THEN Zero ELSE One]),
            Single(Key("ib_boundary"),
                   [c \in Cells |-> IF c = HaloWidth + 1 THEN One ELSE Zero])) >>

\* The maps given to prestep (all), to prediction_step (boundary values and
\* sources, a diffusivity entry, the masks) and to correction_step (boundary
\* values and sources, the masks).
PrestepAdditional == DOMAIN AdditionalStatesSeq
PredictionAdditional == {2, 4, 5}
CorrectionAdditional == {2, 5}

\* A state map: density, thermal density, velocity, every scalar and its
\* conservative variable rho_<scalar> = rho * scalar + pert.
MkStates(rho, phi, pert) ==
  LET sc(v) == FAdd(phi, Uniform(Int2Rat(Ord(v))))
  IN  Update(
        [k \in {Key(v) : v \in {"rho", "rho_thermal", "u", "v", "w"}} |->
           CASE k[2] = "rho" -> rho
             [] k[2] = "rho_thermal" -> FScale(<<1, 2>>, rho)
             [] k[2] = "u" -> Ramp(Zero)
             [] OTHER -> Uniform(One)],
        Update([k \in {Key(v) : v \in DispatchUniverse} |-> sc(k[2])],
               [k \in {RhoKey(v) : v \in DispatchUniverse} |->
                  FAdd(FMul(rho, sc(k[2])), Uniform(pert))]))

\* The state maps a call may be given; 0 stands for the empty map.  The last
\* two hold a conservative variable that differs from rho * scalar.
StatesSeq ==
  << MkStates(Uniform(One), Uniform(Int2Rat(3)), Zero),
     MkStates(Ramp(One), Uniform(Int2Rat(3)), Zero),
     MkStates(Ramp(One), Ramp(Zero), Zero),
     MkStates(Uniform(Int2Rat(2)), Ramp(Zero), Zero),
     MkStates(Uniform(Int2Rat(2)), Uniform(Int2Rat(3)), One),
     MkStates(Ramp(One), Ramp(Zero), One) >>

StatesAt(i) == IF i = 0 THEN EmptyMap ELSE StatesSeq[i]

\* The pairs <<states, states_0>> of prediction_step: a steady state; one
\* density and different scalars; different densities and one scalar; a
\* states_0 whose conservative variable differs from rho * scalar.
StatePairs == {<<1, 1>>, <<2, 3>>, <<3, 4>>, <<4, 5>>}

\* The states of correction_step, with the conservative variable as predicted
\* or changed since, and its states_0.
CorrectionStates == {3, 4, 6}
CorrectionStates0 == {0, 1}

ClosureSet == {0, 1}

\* -------------------------------------------------------------------- state
VARIABLES
  params,   \* self._params: the configuration
  scalar_model, \* self._scalar_model: the closure variant of every scalar
  ib,       \* self._ib is not None
  dbg,      \* self._dbg is not None
  bc,       \* self._bc
  source,   \* self._source
  op,       \* the call in progress: "none", "prestep", "prediction_step", ...
  args,     \* its arguments
  ret,      \* what it returned or raised
  trace,    \* the calls it made on its collaborators, in order
  replicas  \* the replicas that run one step together, each on its own data

vars == <<params, scalar_model, ib, dbg, bc, source, op, args, ret, trace, replicas>>

\* The arguments of a call, each by its position in the sequences above.
NoArgs == [states |-> 0, states_0 |-> 0, additional_states |-> 1, closure |-> 0]
NoRet == [raised |-> FALSE, value |-> EmptyMap]

Init ==
  /\ params \in Params
  /\ scalar_model = InitScalarModel(params)
  /\ ib \in BOOLEAN
  /\ dbg \in BOOLEAN
  /\ bc = InitBc(params)
  /\ source = InitSource(params)
  /\ op = "none"
  /\ args = NoArgs
  /\ ret = NoRet
  /\ trace = <<>>
  /\ replicas = <<>>

\* Scalars.prestep
Prestep ==
  /\ op = "none"
  /\ \E a \in PrestepAdditional :
       /\ bc' = PrestepBc(bc, AdditionalStatesSeq[a])
       /\ source' = PrestepSource(source, AdditionalStatesSeq[a])
       /\ op' = "prestep"
       /\ args' = [NoArgs EXCEPT !.additional_states = a]
       /\ ret' = NoRet
       /\ trace' = <<>>
  /\ UNCHANGED <<params, scalar_model, ib, dbg, replicas>>

\* The context of a step: the object and the arguments of the call.
Context(a) ==
  [params |-> params, ib |-> ib, dbg |-> dbg, bc |-> bc, source |-> source,
   states |-> StatesAt(a.states), states_0 |-> StatesAt(a.states_0),
   additional_states |-> AdditionalStatesSeq[a.additional_states],
   closure |-> a.closure]

\* A call returns: the call, what it returned or raised, the calls it made.
Called(name, call, r) ==
  /\ op' = name
  /\ args' = call
  /\ ret' = [raised |-> r.raised, value |-> r.value]
  /\ trace' = r.calls

PredictionCall(pair, a, closure) ==
  [states |-> pair[1], states_0 |-> pair[2], additional_states |-> a, closure |-> closure]

\* Scalars.prediction_step
Prediction ==
  /\ op = "none"
  /\ \E pair \in StatePairs, a \in PredictionAdditional, closure \in ClosureSet :
       /\ Called("prediction_step", PredictionCall(pair, a, closure),
                 PredictionStep(Context(PredictionCall(pair, a, closure))))
       /\ source' = SourceAfterPrediction(Context(PredictionCall(pair, a, closure)))
  /\ UNCHANGED <<params, scalar_model, ib, dbg, bc, replicas>>

CorrectionCall(s, s0, a) ==
  [states |-> s, states_0 |-> s0, additional_states |-> a, closure |-> 0]

\* Scalars.correction_step
Correction ==
  /\ op = "none"
  /\ \E s \in CorrectionStates, s0 \in CorrectionStates0, a \in CorrectionAdditional :
       Called("correction_step", CorrectionCall(s, s0, a),
              CorrectionStep(Context(CorrectionCall(s, s0, a))))
  /\ UNCHANGED <<params, scalar_model, ib, dbg, bc, source, replicas>>

\* The caller takes the result; the orchestrator is ready for the next call.
Return ==
  /\ op # "none"
  /\ op' = "none"
  /\ args' = NoArgs
  /\ ret' = NoRet
  /\ trace' = <<>>
  /\ UNCHANGED <<params, scalar_model, ib, dbg, bc, source, replicas>>

Next == Prestep \/ Prediction \/ Correction \/ Return

Spec == Init /\ [][Next]_vars

\* ----------------------------------------------------------------- dispatch
\* The orchestrator built for lists over every name the dispatch rules tell
\* apart, and then used as above.
DispatchLists ==
  {s \in UNION {[1..n -> DispatchUniverse] : n \in 1..MaxScalars} : NoRepeat(s)}

DispatchParams ==
  {[transport_scalars_names |-> names,
    scheme |-> SchemeOf(names, 0),
    solver_mode |-> "LOW_MACH",
    use_sgs |-> FALSE,
    dt |-> <<1, 10>>,
    bc |-> ParamsBc] : names \in DispatchLists}

DispatchInit ==
  /\ params \in DispatchParams
  /\ scalar_model = InitScalarModel(params)
  /\ ib = FALSE
  /\ dbg = FALSE
  /\ bc = InitBc(params)
  /\ source = InitSource(params)
  /\ op = "none"
  /\ args = NoArgs
  /\ ret = NoRet
  /\ trace = <<>>
  /\ replicas = <<>>

SpecDispatch == DispatchInit /\ [][Next]_vars

\* ----------------------------------------------------------------- replicas
\* Every replica holds the same orchestrator and runs the same step, each on
\* the data of its own subdomain; a halo exchange is a collective that
\* completes when every replica has asked for it.
NReplicas == 2
Replicas == 1..NReplicas

\* The data of one subdomain: a steady uniform field without closure terms;
\* different densities, closure terms and an immersed solid; an inconsistent
\* conservative variable and a diffusivity entry.
LocalCalls ==
  { PredictionCall(<<1, 1>>, 2, 0),
    PredictionCall(<<3, 4>>, 5, 1),
    PredictionCall(<<4, 5>>, 4, 1) }

\* The names a step asks the collective for, in order.
ExchangeRequests(calls) ==
  LET ex == SelectSeq(calls, LAMBDA e : e.fn = "inplace_halo_exchange")
  IN  [i \in DOMAIN ex |-> ex[i].key[2]]

ReplicaInit ==
  /\ params \in Params
  /\ scalar_model = InitScalarModel(params)
  /\ ib \in BOOLEAN
  /\ dbg \in BOOLEAN
  /\ bc = InitBc(params)
  /\ source = InitSource(params)
  /\ op = "prediction_step"
  /\ args = NoArgs
  /\ ret = NoRet
  /\ trace = <<>>
  /\ replicas \in [Replicas -> {[pc |-> "idle", call |-> l, requests |-> <<>>, at |-> 0,
                                 raised |-> FALSE] :
                                  l \in LocalCalls}]

\* A replica that has run to its first collective, or to its return when it
\* asks for none; raised tells how it will return.
Started(rep, requests, raised) ==
  [rep EXCEPT !.pc = IF requests = <<>> THEN "returned" ELSE "exchange",
              !.requests = requests, !.at = 0, !.raised = raised]

\* The step of the replicas on the data of one of them.
ReplicaStep(call) ==
  IF op = "prediction_step"
    THEN PredictionStep(Context(call))
    ELSE CorrectionStep(Context(call))

ReplicaStarted(rep, out) == Started(rep, ExchangeRequests(out.calls), out.raised)

\* One replica enters the step on its local data.
ReplicaStart(r) ==
  /\ replicas[r].pc = "idle"
  /\ replicas' =
       [replicas EXCEPT ![r] = ReplicaStarted(@, ReplicaStep(replicas[r].call))]
  /\ UNCHANGED <<params, scalar_model, ib, dbg, bc, source, op, args, ret, trace>>

\* The name a replica waits for.
Waiting(rep) == rep.requests[rep.at + 1]

\* halo_exchange.inplace_halo_exchange: the collective completes once every
\* replica waits for it under one name; each replica goes on to its next one.
Collective ==
  /\ \A r \in Replicas : replicas[r].pc = "exchange"
  /\ \A r \in Replicas : Waiting(replicas[r]) = Waiting(replicas[1])
  /\ replicas' =
       [r \in Replicas |->
          [replicas[r] EXCEPT
             !.at = @ + 1,
             !.pc = IF replicas[r].at + 1 = Len(replicas[r].requests)
                      THEN "returned" ELSE "exchange"]]
  /\ UNCHANGED <<params, scalar_model, ib, dbg, bc, source, op, args, ret, trace>>

\* Every replica has returned from prediction_step and none has raised: the
\* driver goes on to correction_step.
NextStep ==
  /\ op = "prediction_step"
  /\ \A r \in Replicas : replicas[r].pc = "returned" /\ ~replicas[r].raised
  /\ op' = "correction_step"
  /\ replicas' = [r \in Replicas |->
                    [replicas[r] EXCEPT !.pc = "idle", !.requests = <<>>, !.at = 0]]
  /\ UNCHANGED <<params, scalar_model, ib, dbg, bc, source, args, ret, trace>>

ReplicaNext == (\E r \in Replicas : ReplicaStart(r)) \/ Collective \/ NextStep

SpecReplicas == ReplicaInit /\ [][ReplicaNext]_vars

\* ------------------------------------------------------------------- optics
\* optics_utils: the functions are pure; a call is op, args and ret, and the
\* orchestrator takes no part.
MaxRef == 4

\* tf.clip_by_value
ClipByValue(v, lo, hi) == IF v < lo THEN lo ELSE IF v > hi THEN hi ELSE v

\* Mutant: the quotient is returned as it is.
FloorIdxUnclipped(f, reference_values) ==
  RFloorDiv(RSub(f, reference_values[1]), RSub(reference_values[2], reference_values[1]))

\* optics_utils.floor_idx, for one value f; indices count from 0, so that
\* reference_values[k] of the code is reference_values[k + 1] here.
FloorIdx(f, reference_values) ==
  LET delta == RSub(reference_values[2], reference_values[1])
      size == Len(reference_values)
      truncated_div == RFloorDiv(RSub(f, reference_values[1]), delta)
  IN  ClipByValue(truncated_div, 0, size - 1)

\* Evenly spaced increasing reference values.
EvenlySpaced(first, delta, size) ==
  [k \in 1..size |-> RAdd(first, RMul(Int2Rat(k - 1), delta))]

ReferenceValues ==
  {EvenlySpaced(first, delta, size) :
     first \in {Int2Rat(-1), Rat(1, 2)},
     delta \in {One, Rat(1, 2), Int2Rat(3)},
     size \in 2..MaxRef}

\* Values inside the reference range, on its points and out of it either side.
FValues == {Rat(k, 4) : k \in -8..48}

FloorIdxInputs ==
  {[fn |-> "floor_idx", f |-> f, reference_values |-> r] :
     f \in FValues, r \in ReferenceValues}

\* IndexAndWeight and Interpolant
IndexAndWeight(idx, weight) == [idx |-> idx, weight |-> weight]
Interpolant(interp_low, interp_high) == [interp_low |-> interp_low, interp_high |-> interp_high]

\* optics_utils.create_linear_interpolant without offset, for one value f
\* inside the range of f_ref.
CreateLinearInterpolant(f, f_ref) ==
  LET size == Len(f_ref)
      delta == RSub(f_ref[2], f_ref[1])
      idx_low == FloorIdx(f, f_ref)
      idx_high == IF idx_low + 1 < size - 1 THEN idx_low + 1 ELSE size - 1
      diff == RDiv(RSub(f, f_ref[idx_low + 1]), delta)
      weight2 == IF diff[1] < 0 THEN RNeg(diff) ELSE diff
      weight1 == RSub(One, weight2)
  IN  Interpolant(IndexAndWeight(idx_low, weight1), IndexAndWeight(idx_high, weight2))

\* An ordered dictionary is the sequence of its <<key, value>> items.
DictKeys(d) == [i \in DOMAIN d |-> d[i][1]]
DictValues(d) == [i \in DOMAIN d |-> d[i][2]]
\* OrderedDict.update with one item: a new key goes last, a key already held
\* keeps its place.
DictUpdate(d, k, v) ==
  IF \E i \in DOMAIN d : d[i][1] = k
    THEN [i \in DOMAIN d |-> IF d[i][1] = k THEN <<k, v>> ELSE d[i]]
    ELSE Append(d, <<k, v>>)

\* The coefficient table, by the list of the indices of its axes.
RECURSIVE CoeffsAt(_)
CoeffsAt(idx_list) ==
  IF idx_list = <<>> THEN 1
  ELSE idx_list[1] + 1 + 5 * CoeffsAt(Tail(idx_list))

RECURSIVE RProd(_)
RProd(ws) == IF ws = <<>> THEN One ELSE RMul(ws[1], RProd(Tail(ws)))

\* optics_utils.evaluate_weighted_lookup, lookup_values
EvaluateWeightedLookup(weight_idx_list) ==
  RMul(Int2Rat(CoeffsAt([i \in DOMAIN weight_idx_list |-> weight_idx_list[i].idx])),
       RProd([i \in DOMAIN weight_idx_list |-> weight_idx_list[i].weight]))

\* The reference values of every variable of the table.
InterpRef == EvenlySpaced(Zero, One, MaxRef)

RECURSIVE IdxSum(_)
IdxSum(dep) == IF dep = <<>> THEN 0 ELSE dep[1][2].idx + IdxSum(Tail(dep))

\* An interpolant function: an independent one interpolates its own value, a
\* dependent one a value computed from the indices of the entries it is given.
InterpolantFn(fn, dep) ==
  CreateLinearInterpolant(
    IF fn.kind = "dependent" THEN RAdd(fn.x, Int2Rat(IdxSum(dep) % 2)) ELSE fn.x,
    InterpRef)

\* Mutant: the higher branch starts from an empty dictionary.
HigherIdxWeightDictFresh(idx_weight_by_varname, varname, interpolant) ==
  DictUpdate(<<>>, varname, interpolant.interp_high)

\* interpolate: the dictionaries of the two branches.
LowerIdxWeightDict(idx_weight_by_varname, varname, interpolant) ==
  DictUpdate(idx_weight_by_varname, varname, interpolant.interp_low)

HigherIdxWeightDict(idx_weight_by_varname, varname, interpolant) ==
  DictUpdate(idx_weight_by_varname, varname, interpolant.interp_high)

\* optics_utils.interpolate at recursion depth depth: whether it raised, the
\* value, the calls made in order, and the caller's interpolant_fns after the
\* call (the function pops from a copy).
RECURSIVE Interpolate(_, _, _)
InterpolateSum(fns, iw, depth, varname, interpolant, lower, higher) ==
  [raised |-> lower.raised \/ higher.raised,
   value |-> RAdd(lower.value, higher.value),
   calls |-> << Call("interpolate", depth, DictKeys(fns), DictKeys(iw)),
                Call("interpolant_fn", varname, iw, interpolant) >>
             \o lower.calls \o higher.calls,
   interpolant_fns |-> fns]

InterpolateBranches(fns, iw, depth, varname, interpolant) ==
  InterpolateSum(fns, iw, depth, varname, interpolant,
                 Interpolate(Tail(fns), LowerIdxWeightDict(iw, varname, interpolant),
                             depth + 1),
                 Interpolate(Tail(fns), HigherIdxWeightDict(iw, varname, interpolant),
                             depth + 1))

InterpolateBase(fns, iw, depth, value) ==
  [raised |-> FALSE, value |-> value,
   calls |-> << Call("interpolate", depth, DictKeys(fns), DictKeys(iw)),
                Call("evaluate_weighted_lookup", depth, DictValues(iw), value) >>,
   interpolant_fns |-> fns]

Interpolate(interpolant_fns, idx_weight_by_varname, depth) ==
  IF interpolant_fns = <<>>
    THEN IF idx_weight_by_varname = <<>>
           THEN [raised |-> TRUE, value |-> Zero,
                 calls |-> <<Call("interpolate", depth, <<>>, <<>>)>>,
                 interpolant_fns |-> interpolant_fns]
           ELSE InterpolateBase(interpolant_fns, idx_weight_by_varname, depth,
                                EvaluateWeightedLookup(DictValues(idx_weight_by_varname)))
    ELSE InterpolateBranches(interpolant_fns, idx_weight_by_varname, depth,
                             interpolant_fns[1][1],
                             InterpolantFn(interpolant_fns[1][2], idx_weight_by_varname))

\* The variables of the table, in the order of its axes.
MaxVars == 3
VarNames == <<"t", "p", "eta", "a", "b", "c">>

InterpolantFns ==
  UNION {[1..n -> {[kind |-> k, x |-> x] :
                     k \in {"independent", "dependent"}, x \in {Rat(1, 2), One}}] :
           n \in 0..MaxVars}

\* interpolate is given the functions alone, or with an entry accumulated
\* already.
InterpolateInputs ==
  {[fn |-> "interpolate",
    interpolant_fns |-> [j \in DOMAIN fs |-> <<VarNames[j], fs[j]>>],
    idx_weight_by_varname |-> iw] :
     fs \in InterpolantFns,
     iw \in {None, <<<<"t0", IndexAndWeight(1, Rat(1, 2))>>>>}}

OpticsInit ==
  /\ params = <<>>
  /\ scalar_model = <<>>
  /\ ib = FALSE
  /\ dbg = FALSE
  /\ bc = <<>>
  /\ source = <<>>
  /\ replicas = <<>>
  /\ op = "none"
  /\ args \in FloorIdxInputs \cup InterpolateInputs
  /\ ret = NoRet
  /\ trace = <<>>

\* floor_idx is called on the input.
FloorIdxCall ==
  /\ op = "none"
  /\ args.fn = "floor_idx"
  /\ op' = "floor_idx"
  /\ ret' = [raised |-> FALSE, value |-> FloorIdx(args.f, args.reference_values)]
  /\ UNCHANGED <<params, scalar_model, ib, dbg, bc, source, replicas, args, trace>>

\* A call of interpolate returns.
Interpolated(r) ==
  /\ op' = "interpolate"
  /\ ret' = [raised |-> r.raised,
             value |-> [value |-> r.value, interpolant_fns |-> r.interpolant_fns]]
  /\ trace' = r.calls

\* interpolate is called on the input.
InterpolateCall ==
  /\ op = "none"
  /\ args.fn = "interpolate"
  /\ Interpolated(Interpolate(args.interpolant_fns, args.idx_weight_by_varname, 0))
  /\ UNCHANGED <<params, scalar_model, ib, dbg, bc, source, replicas, args>>

OpticsNext == FloorIdxCall \/ InterpolateCall

SpecOptics == OpticsInit /\ [][OpticsNext]_vars

\* ---------------------------------------------------------- fire UQ sampler
\* The largest n_samples_uq and the most rows of the file at uq_filename.
MaxSamples == 5
MaxFileRows == 21

\* number_of_samples: what it returns under modify_indiviual and under
\* read_uq_file; generate_samples: the length of the arrays of ones.
IndividualSamples == 4
FileSamples == 20
IndividualTrajectories == 4

\* The flags that bound the uncertain parameters, at their defaults.
UqFlagDefaults ==
  [fuel_load_lb |-> Rat(9, 100), fuel_load_ub |-> Rat(225, 100),
   large_scale_fuel_bed_height |-> Rat(9785, 1000),
   moisture_content_lb |-> Rat(3, 100), moisture_content_ub |-> Rat(12, 100),
   wind_speed_lb |-> Int2Rat(5), wind_speed_ub |-> Int2Rat(12)]

\* The flags that select the samples, and the number of rows of the array
\* stored at uq_filename.
UqFlags ==
  [modify_indiviual : BOOLEAN, read_uq_file : BOOLEAN,
   n_samples_uq : 0..MaxSamples, uq_rows : 0..MaxFileRows]

\* np.float32(np.load(uq_filename)[:, j]): column j (from 0), in single
\* precision, of the array of rows rows stored in the file.
UqColumn(rows, j) ==
  [i \in 1..rows |-> [float32 |-> <<Rat(i, 10), Rat(i, 100), Int2Rat(i)>>[j + 1]]]

\* FireUQSampler._uniform; random is self.sampler.random(size=(n_samples,)),
\* the next n_samples numbers of the generator after drawn of them.
SamplerUniform(lower_bound, upper_bound, n_samples, drawn) ==
  LET random == [k \in 1..n_samples |-> Rat((3 * (drawn + k)) % 7, 7)]
  IN  [k \in 1..n_samples |->
         RAdd(RMul(RSub(upper_bound, lower_bound), random[k]), lower_bound)]

\* FireUQSampler.number_of_samples
NumberOfSamples(flags) ==
  IF flags.modify_indiviual THEN IndividualSamples
  ELSE IF flags.read_uq_file THEN FileSamples
  ELSE flags.n_samples_uq

\* FireUQSampler.generate_samples: fuel_density_samples,
\* moisture_density_samples, wind_speed_samples.
GenerateSamples(flags) ==
  LET f == UqFlagDefaults
      \* np.ones(n) * lb with the entry at index at (from 0) set to ub
      OneVaried(n, lb, ub, at) == [k \in 1..n |-> IF k = at + 1 THEN ub ELSE lb]
      Densities(fuel_load_samples, moisture_content_samples, wind_speed_samples) ==
        << [k \in DOMAIN fuel_load_samples |->
              RDiv(fuel_load_samples[k], f.large_scale_fuel_bed_height)],
           [k \in DOMAIN moisture_content_samples |->
              RMul(moisture_content_samples[k],
                   RDiv(fuel_load_samples[k], f.large_scale_fuel_bed_height))],
           wind_speed_samples >>
  IN  IF flags.read_uq_file
        THEN << UqColumn(flags.uq_rows, 0), UqColumn(flags.uq_rows, 1),
                UqColumn(flags.uq_rows, 2) >>
      ELSE IF flags.modify_indiviual
        THEN Densities(
               OneVaried(IndividualTrajectories, f.fuel_load_lb, f.fuel_load_ub, 1),
               OneVaried(IndividualTrajectories, f.moisture_content_lb,
                         f.moisture_content_ub, 2),
               OneVaried(IndividualTrajectories, f.wind_speed_lb, f.wind_speed_ub, 3))
      ELSE Densities(
             SamplerUniform(f.fuel_load_lb, f.fuel_load_ub, flags.n_samples_uq, 0),
             SamplerUniform(f.moisture_content_lb, f.moisture_content_ub,
                            flags.n_samples_uq, flags.n_samples_uq),
             SamplerUniform(f.wind_speed_lb, f.wind_speed_ub,
                            flags.n_samples_uq, 2 * flags.n_samples_uq))

\* FireUQSampler.generate_data_dump_prefixes; a string is the sequence of its
\* parts.
GenerateDataDumpPrefixes(flags, data_dump_prefix) ==
  LET cut == IF data_dump_prefix = <<>> THEN <<>>
             ELSE SubSeq(data_dump_prefix, 1, Len(data_dump_prefix) - 1)
      data_dump_prefix_base ==
        (cut \o <<"_">>) \o (IF flags.modify_indiviual THEN <<"testrun_">> ELSE <<>>)
  IN  [k \in 1..NumberOfSamples(flags) |->
         data_dump_prefix_base \o <<ToString(k - 1), "/">>]

\* The prefixes given to generate_data_dump_prefixes.
DataDumpPrefixes == {<<>>, <<"/">>, <<"out", "/">>}

UqInit ==
  /\ params \in UqFlags
  /\ scalar_model = <<>>
  /\ ib = FALSE
  /\ dbg = FALSE
  /\ bc = <<>>
  /\ source = <<>>
  /\ replicas = <<>>
  /\ op = "none"
  /\ args = <<>>
  /\ ret = NoRet
  /\ trace = <<>>

\* FireUQSampler().number_of_samples()
NumberOfSamplesCall ==
  /\ op = "none"
  /\ op' = "number_of_samples"
  /\ ret' = [raised |-> FALSE, value |-> NumberOfSamples(params)]
  /\ UNCHANGED <<params, scalar_model, ib, dbg, bc, source, replicas, args, trace>>

\* FireUQSampler().generate_samples()
GenerateSamplesCall ==
  /\ op = "none"
  /\ op' = "generate_samples"
  /\ ret' = [raised |-> FALSE, value |-> GenerateSamples(params)]
  /\ UNCHANGED <<params, scalar_model, ib, dbg, bc, source, replicas, args, trace>>

\* FireUQSampler().generate_data_dump_prefixes(data_dump_prefix)
GenerateDataDumpPrefixesCall ==
  /\ op = "none"
  /\ \E data_dump_prefix \in DataDumpPrefixes :
       /\ op' = "generate_data_dump_prefixes"
       /\ args' = <<data_dump_prefix>>
       /\ ret' = [raised |-> FALSE,
                  value |-> GenerateDataDumpPrefixes(params, data_dump_prefix)]
  /\ UNCHANGED <<params, scalar_model, ib, dbg, bc, source, replicas, trace>>

UqNext == NumberOfSamplesCall \/ GenerateSamplesCall \/ GenerateDataDumpPrefixesCall

SpecUQ == UqInit /\ [][UqNext]_vars

\* ================================================================== claims
Names == params.transport_scalars_names
NScalars == Len(Names)
ArgStates == StatesAt(args.states)
ArgStates0 == StatesAt(args.states_0)
ArgAdditional == AdditionalStatesSeq[args.additional_states]

\* The calls of the trace made on fn, in order, and their positions.
CallsOn(fn) == SelectSeq(trace, LAMBDA e : e.fn = fn)
PositionsOf(fn) == {i \in DOMAIN trace : trace[i].fn = fn}
IbPositions == PositionsOf("update_forcing") \cup PositionsOf("update_states")

PredictionDone == op = "prediction_step" /\ ~ret.raised
CorrectionDone == op = "correction_step" /\ ~ret.raised

\* ---------------------------------------------------------------------- C1
\* C1 (as claimed): when prediction_step raises for an unsupported scheme,
\* no scalar has been advanced, no halo exchange has been invoked and no
\* immersed-boundary call has been made in that call, wherever the offending
\* scalar stands in the list.
C1_NoWorkBeforeError ==
  (op = "prediction_step" /\ ret.raised) =>
     /\ PositionsOf("time_advance_cn_explicit") = {}
     /\ PositionsOf("inplace_halo_exchange") = {}
     /\ IbPositions = {}

\* ---------------------------------------------------------------------- C2
\* C2 (as claimed): with an immersed-boundary corrector, a prediction_step
\* makes exactly one call on the corrector, update_forcing and update_states
\* both counted, and a correction_step one call per transported scalar.
C2_OneCorrectorCallPerPrediction ==
  /\ (ib /\ PredictionDone) => Cardinality(IbPositions) = 1
  /\ (ib /\ CorrectionDone) => Cardinality(IbPositions) = NScalars

\* C2 (amended): with an immersed-boundary corrector, a prediction_step that
\* completes calls update_states exactly once, as its last call and after
\* every scalar has been advanced and exchanged, and calls update_forcing
\* exactly once per transported scalar while assembling the right-hand
\* sides; a correction_step calls update_states exactly once per transported
\* scalar, in list order, and never update_forcing.
C2_CorrectorCalls ==
  /\ (ib /\ PredictionDone) =>
        /\ PositionsOf("update_states") = {Len(trace)}
        /\ Cardinality(PositionsOf("time_advance_cn_explicit")) = NScalars
        /\ Cardinality(PositionsOf("inplace_halo_exchange")) = NScalars
        /\ Len(CallsOn("update_forcing")) = NScalars
        /\ \A i \in 1..NScalars : CallsOn("update_forcing")[i].key = RhoKey(Names[i])
  /\ (ib /\ CorrectionDone) =>
        /\ Len(CallsOn("update_states")) = NScalars
        /\ \A i \in 1..NScalars : CallsOn("update_states")[i].key = Key(Names[i])
        /\ PositionsOf("update_forcing") = {}

C2_Witness ==
  /\ ib /\ PredictionDone /\ NScalars = MaxScalars
  /\ trace[Len(trace)].fn = "update_states"
  /\ Len(CallsOn("update_forcing")) = MaxScalars

\* ---------------------------------------------------------------------- C3
Rho == ArgStates[Key("rho")]

\* C3 (as claimed): in the non-anelastic branch, phi == rho_phi / rho at every
\* cell, halo cells included, for every transported scalar, in the map
\* prediction_step returns and in the map correction_step returns, with and
\* without an immersed-boundary corrector, whatever the boundary conditions.
C3_PrimitiveIsQuotientEverywhere ==
  /\ (PredictionDone /\ params.solver_mode # "ANELASTIC") =>
        \A i \in 1..NScalars : \A x \in Cells :
           ret.value[Key(Names[i])][x] = RDiv(ret.value[RhoKey(Names[i])][x], Rho[x])
  /\ (CorrectionDone /\ params.solver_mode # "ANELASTIC") =>
        \A i \in 1..NScalars : \A x \in Cells :
           ret.value[Key(Names[i])][x] = RDiv(ArgStates[RhoKey(Names[i])][x], Rho[x])

\* C3 (amended): in the non-anelastic branch and without an immersed-boundary
\* corrector, phi == rho_phi / rho at every interior (non-halo) cell, for every
\* transported scalar, in the map prediction_step returns and in the map
\* correction_step returns; the halo cells of phi hold what the halo exchange
\* put there.
C3_PrimitiveIsQuotientInside ==
  /\ (PredictionDone /\ params.solver_mode # "ANELASTIC" /\ ~ib) =>
        \A i \in 1..NScalars : \A x \in InteriorCells :
           ret.value[Key(Names[i])][x] = RDiv(ret.value[RhoKey(Names[i])][x], Rho[x])
  /\ (CorrectionDone /\ params.solver_mode # "ANELASTIC" /\ ~ib) =>
        \A i \in 1..NScalars : \A x \in InteriorCells :
           ret.value[Key(Names[i])][x] = RDiv(ArgStates[RhoKey(Names[i])][x], Rho[x])

C3_Witness ==
  /\ PredictionDone /\ params.solver_mode # "ANELASTIC" /\ ~ib
  /\ NScalars = MaxScalars
  /\ args.closure = 1
  /\ Rho # ArgStates0[Key("rho")]
  /\ \E x \in HaloCells :
       ret.value[Key(Names[1])][x] # RDiv(ret.value[RhoKey(Names[1])][x], Rho[x])
\* ---------------------------------------------------------------------- C4
Rho0 == ArgStates0[Key("rho")]
\* The calls of time_advance_cn_explicit: f is the advanced variable, aux the
\* right-hand side it was given.
Advances == CallsOn("time_advance_cn_explicit")
ZeroRhs(i) == Advances[i].aux = ZerosLike(Rho)

\* C4 (as claimed): in the non-anelastic branch, when the right-hand side of a
\* scalar is zero everywhere, prediction_step returns rho_phi_new equal to the
\* rho_<scalar> of states_0 and phi_new equal to the <scalar> of states_0,
\* also when the densities of states and states_0 differ.
C4_ZeroRhsKeepsBoth ==
  (PredictionDone /\ params.solver_mode # "ANELASTIC") =>
     \A i \in 1..NScalars : ZeroRhs(i) =>
        /\ ret.value[RhoKey(Names[i])] = ArgStates0[RhoKey(Names[i])]
        /\ ret.value[Key(Names[i])] = ArgStates0[Key(Names[i])]

\* C4 (amended): in the non-anelastic branch without an immersed-boundary
\* corrector, when the right-hand side of a scalar is zero everywhere,
\* rho_phi_new equals rho_phi_old at every cell and phi_new equals
\* rho_phi_old / rho_new at every interior cell; so phi_new equals phi_old at
\* the interior cells where the density of states equals that of states_0 and
\* states_0 holds rho_phi_old = rho_old * phi_old.
C4_ZeroRhsKeepsConservative ==
  (PredictionDone /\ params.solver_mode # "ANELASTIC" /\ ~ib) =>
     \A i \in 1..NScalars : ZeroRhs(i) =>
        /\ ret.value[RhoKey(Names[i])] = ArgStates0[RhoKey(Names[i])]
        /\ \A x \in InteriorCells :
             /\ ret.value[Key(Names[i])][x] = RDiv(ArgStates0[RhoKey(Names[i])][x], Rho[x])
             /\ (/\ Rho[x] = Rho0[x]
                 /\ ArgStates0[RhoKey(Names[i])][x] = RMul(Rho0[x], ArgStates0[Key(Names[i])][x]))
                => ret.value[Key(Names[i])][x] = ArgStates0[Key(Names[i])][x]

C4_Witness ==
  /\ PredictionDone /\ params.solver_mode # "ANELASTIC" /\ ~ib
  /\ \A i \in 1..NScalars : ZeroRhs(i)
  /\ ArgStates0 # ArgStates /\ Rho = Rho0
  /\ \A x \in InteriorCells :
       ret.value[Key(Names[1])][x] = ArgStates0[Key(Names[1])][x]

\* ---------------------------------------------------------------------- C5
\* C5: prestep is idempotent: right after prestep(additional_states), a second
\* prestep with the same additional_states leaves the boundary-condition
\* registry and the source registry as the first call left them.
C5_PrestepIdempotent ==
  op = "prestep" =>
     /\ PrestepBc(bc, ArgAdditional) = bc
     /\ PrestepSource(source, ArgAdditional) = source

C5_Witness ==
  /\ op = "prestep"
  /\ bc # InitBc(params)
  /\ \E v \in Range(Names) :
       /\ SrcKey(v) \in DOMAIN ArgAdditional
       /\ source[v] = ArgAdditional[SrcKey(v)]
       /\ \E face \in 1..2 : BcKey(v, face) \in DOMAIN ArgAdditional

\* ---------------------------------------------------------------------- C6
\* C6: after construction and after any sequence of prestep calls, the
\* boundary-condition registry holds an entry for every transported scalar and
\* for no other name.
C6_BcRegistryKeys == DOMAIN bc = Range(Names)

C6_Witness ==
  /\ op = "prestep"
  /\ \E k \in DOMAIN ArgAdditional : k[1] = "bc_" /\ k[2] \notin Range(Names)
  /\ \E k \in DOMAIN ArgAdditional : k[1] = "bc_" /\ k[2] \in Range(Names)
  /\ DOMAIN params.bc # Range(Names)

\* ---------------------------------------------------------------------- C7
Exchanges == CallsOn("inplace_halo_exchange")

\* C7: a prediction_step or correction_step that completes makes exactly one
\* halo exchange per transported scalar, in list order, on the primitive
\* scalar (in the non-anelastic prediction rho_<scalar> / rho, never
\* rho_<scalar> itself) and with the registered boundary condition of that
\* scalar, in both solver modes and with or without debug hook, sub-grid
\* closure and immersed-boundary corrector.
C7_OneExchangePerScalar ==
  (PredictionDone \/ CorrectionDone) =>
     /\ Len(Exchanges) = NScalars
     /\ \A i \in 1..NScalars :
          /\ Exchanges[i].key = Key(Names[i])
          /\ Exchanges[i].aux = bc[Names[i]]
          /\ PredictionDone =>
               Exchanges[i].f = IF params.solver_mode = "ANELASTIC"
                                  THEN Advances[i].f
                                  ELSE FDiv(Advances[i].f, Rho)
          /\ CorrectionDone =>
               \A x \in Cells \ (IF ib THEN SolidCells(ArgAdditional) ELSE {}) :
                  Exchanges[i].f[x] = RDiv(ArgStates[RhoKey(Names[i])][x], Rho[x])

C7_Witness ==
  /\ PredictionDone /\ params.solver_mode # "ANELASTIC"
  /\ ib /\ dbg /\ params.use_sgs
  /\ NScalars = MaxScalars
  /\ \A i \in 1..NScalars : Exchanges[i].f # Advances[i].f

\* ---------------------------------------------------------------------- C8
\* C8: replicas that run the same step in lockstep ask the collective for the
\* same sequence of names, whatever their local data, and the step never
\* leaves a replica waiting at a collective that another replica does not
\* reach: once every replica has entered the step, either all of them wait
\* for the same name or all of them have returned.
C8_SameCollectiveSequence ==
  /\ \A r1, r2 \in Replicas :
       (replicas[r1].pc # "idle" /\ replicas[r2].pc # "idle") =>
          /\ replicas[r1].requests = replicas[r2].requests
          /\ replicas[r1].raised = replicas[r2].raised
  /\ (\A r \in Replicas : replicas[r].pc # "idle") =>
       \/ \A r \in Replicas : replicas[r].pc = "returned" /\ replicas[r].at = Len(replicas[r].requests)
       \/ \A r \in Replicas :
            /\ replicas[r].pc = "exchange"
            /\ replicas[r].at < Len(replicas[r].requests)
            /\ Waiting(replicas[r]) = Waiting(replicas[1])

C8_Witness ==
  /\ op = "correction_step"
  /\ \E r1, r2 \in Replicas : replicas[r1].call # replicas[r2].call
  /\ \A r \in Replicas :
       /\ replicas[r].pc = "returned"
       /\ replicas[r].at = MaxScalars
       /\ replicas[r].requests = Names

\* ---------------------------------------------------------------------- C9
\* The map a completed prediction_step should hold for the scalar at position
\* i, computed from the arguments and the right-hand side by the rule of the
\* solver mode.
C9_Expected(i, rhs) ==
  IF params.solver_mode = "ANELASTIC"
    THEN Single(Key(Names[i]),
           InplaceHaloExchange(
             [x \in Cells |-> RAdd(ArgStates0[Key(Names[i])][x],
                                   RDiv(RMul(params.dt, rhs[x]), Rho[x]))],
             bc[Names[i]]))
    ELSE LET rho_phi_new == [x \in Cells |-> RAdd(ArgStates0[RhoKey(Names[i])][x],
                                                  RMul(params.dt, rhs[x]))]
         IN  Update(Single(RhoKey(Names[i]), rho_phi_new),
                    Single(Key(Names[i]),
                      InplaceHaloExchange([x \in Cells |-> RDiv(rho_phi_new[x], Rho[x])],
                                          bc[Names[i]])))

\* The map the time advance of the scalars leaves: prediction_step returns it,
\* or hands it to update_states when an immersed boundary is configured.
C9_Advanced == IF ib THEN CallsOn("update_states")[1].f ELSE ret.value

C9_Matches(i) ==
  LET want == C9_Expected(i, Advances[i].aux)
  IN  /\ \A k \in DOMAIN want : k \in DOMAIN C9_Advanced /\ C9_Advanced[k] = want[k]
      /\ params.solver_mode = "ANELASTIC" => RhoKey(Names[i]) \notin DOMAIN C9_Advanced

\* C9: the time advance of each scalar follows the solver mode: in anelastic
\* mode phi_new = phi_old + dt * rhs / rho_new (phi_old of states_0, rho_new
\* of states) and the map it returns holds phi_new after halo exchange and no
\* rho_<scalar>; otherwise rho_phi_new = rho_phi_old + dt * rhs (rho_phi_old
\* of states_0), phi_new = rho_phi_new / rho_new, and the map holds the
\* un-exchanged rho_phi_new and the exchanged phi_new.
C9_AdvanceByMode == PredictionDone => \A i \in 1..NScalars : C9_Matches(i)

C9_Witness ==
  /\ PredictionDone /\ ib /\ params.solver_mode = "ANELASTIC"
  /\ args.closure = 1 /\ Rho # Rho0
  /\ NScalars = MaxScalars
  /\ \A i \in 1..NScalars :
       /\ C9_Advanced[Key(Names[i])] # ArgStates0[Key(Names[i])]
       /\ ret.value[Key(Names[i])] # C9_Advanced[Key(Names[i])]

\* --------------------------------------------------------------------- C10
\* C10: the right-hand side assembled for a scalar, before the immersed
\* boundary corrects it, is -(conv_x + conv_y + conv_z) + (diff_x + diff_y +
\* diff_z) + source at every cell, where source is the registered external
\* source (zero when none is registered) plus the source of the closure; the
\* terms are those the closure returned in the three calls before.
C10_RhsAt(p) ==
  LET conv == trace[p - 3].aux
      diff == trace[p - 2].aux
      src_fn == trace[p - 1].aux
      sc == trace[p].key[2]
      registered == IF source[sc] # None THEN source[sc] ELSE ZerosLike(Rho)
  IN  /\ trace[p - 3].fn = "convection_fn" /\ trace[p - 3].key = Key(sc)
      /\ trace[p - 2].fn = "diffusion_fn" /\ trace[p - 2].key = Key(sc)
      /\ trace[p - 1].fn = "source_fn" /\ trace[p - 1].key = Key(sc)
      /\ \A x \in Cells :
           trace[p].f[x] =
             RAdd(RAdd(RNeg(RAdd(RAdd(conv[1][x], conv[2][x]), conv[3][x])),
                       RAdd(RAdd(diff[1][x], diff[2][x]), diff[3][x])),
                  RAdd(registered[x], src_fn[x]))

C10_RhsSignConvention ==
  op = "prediction_step" =>
     /\ \A p \in PositionsOf("scalar_transport_equation") : p > 3 /\ C10_RhsAt(p)
     /\ ~ret.raised => Cardinality(PositionsOf("scalar_transport_equation")) = NScalars

C10_Witness ==
  /\ PredictionDone /\ args.closure = 1 /\ ib
  /\ NScalars = MaxScalars
  /\ \A i \in 1..NScalars : source[Names[i]] # None
  /\ \E p \in PositionsOf("scalar_transport_equation") :
       trace[p].f # trace[p + 2].aux
\* --------------------------------------------------------------------- C11
Assemblies == PositionsOf("scalar_transport_equation")

\* C11: for every transported scalar whose external source is absent, also
\* when prediction_step runs before the first prestep, the right-hand-side
\* assembly takes an all-zero field shaped like density as its registered
\* source, so the source of the right-hand side is the source of the closure
\* alone, and the step does not fail for it: it raises only for an
\* unsupported scheme.
C11_AbsentSourceIsZero ==
  op = "prediction_step" =>
     /\ \A sc \in Range(Names) : sc \in DOMAIN source
     /\ \A p \in Assemblies :
          source[trace[p].key[2]] = None =>
             /\ trace[p].aux = ZerosLike(Rho)
             /\ \A x \in Cells :
                  trace[p].f[x] =
                    RAdd(RAdd(RNeg(RAdd(RAdd(trace[p - 3].aux[1][x], trace[p - 3].aux[2][x]),
                                        trace[p - 3].aux[3][x])),
                              RAdd(RAdd(trace[p - 2].aux[1][x], trace[p - 2].aux[2][x]),
                                   trace[p - 2].aux[3][x])),
                         trace[p - 1].aux[x])
     /\ ret.raised <=> \E i \in 1..NScalars : params.scheme[i] # CN

C11_Witness ==
  /\ PredictionDone /\ args.closure = 1 /\ NScalars = MaxScalars
  /\ source[Names[1]] = None /\ source[Names[2]] # None
  /\ \E p \in Assemblies : trace[p].key = Key(Names[1]) /\ trace[p].aux = ZerosLike(Rho)
  /\ \E p \in Assemblies : trace[p].key = Key(Names[2]) /\ trace[p].aux # ZerosLike(Rho)
\* --------------------------------------------------------------------- C12
\* C12: every transported scalar is bound at construction to exactly one of
\* the variants potential-temperature, humidity, total-energy and
\* generic-passive, by its name; a name that matches none of the specific
\* rules is bound to generic-passive; and the binding is the same after every
\* prestep, prediction_step and correction_step.
C12_DispatchTotalAndFixed ==
  /\ DOMAIN scalar_model = Range(Names)
  /\ \A sc \in Range(Names) :
       scalar_model[sc] =
         CASE sc \in {"theta", "theta_li"} -> "PotentialTemperature"
           [] sc \in {"q_t", "q_r", "q_s"} -> "Humidity"
           [] sc = "e_t" -> "TotalEnergy"
           [] OTHER -> "ScalarGeneric"

C12_Witness ==
  /\ op = "correction_step"
  /\ NScalars = MaxScalars
  /\ scalar_model[Names[1]] = "ScalarGeneric"
  /\ scalar_model[Names[2]] = "TotalEnergy"
\* --------------------------------------------------------------------- C13
\* C13: correction_step does not consult states_0: the same call with any
\* other states_0, the empty map included, returns the same scalars and
\* makes the same collaborator calls in the same order.
C13_Step(s0) == CorrectionStep(Context([args EXCEPT !.states_0 = s0]))

C13_States0NotConsulted ==
  op = "correction_step" =>
     \A s0 \in 0..Len(StatesSeq) :
        /\ C13_Step(s0).raised = ret.raised
        /\ C13_Step(s0).value = ret.value
        /\ C13_Step(s0).calls = trace

C13_Witness ==
  /\ CorrectionDone /\ ib /\ NScalars = MaxScalars
  /\ args.states_0 = 0
  /\ Len(trace) = 2 * MaxScalars
  /\ StatesAt(1) # StatesAt(args.states)
\* --------------------------------------------------------------------- C14
\* The index k, counted from 0, is the highest one with reference_values[k] <= f.
C14_HighestBelow(k, f, reference_values) ==
  /\ k \in 0..(Len(reference_values) - 1)
  /\ RLeq(reference_values[k + 1], f)
  /\ \A j \in 0..(Len(reference_values) - 1) : RLeq(reference_values[j + 1], f) => j <= k

RECURSIVE RSum(_)
RSum(vs) == IF vs = <<>> THEN Zero ELSE RAdd(vs[1], RSum(Tail(vs)))

C15_N == Len(args.interpolant_fns)
C15_Lookups == CallsOn("evaluate_weighted_lookup")

\* C15: interpolate with n >= 1 interpolant functions and no accumulated entry
\* returns, with recursion depth exactly n; at every recursive call the
\* remaining interpolant functions and the accumulated entries number n
\* together; every interpolant function is given the entries of all the
\* variables before it, in order; the result is the sum of 2^n weighted
\* lookups; the caller's interpolant_fns is as it was; and a call with no
\* interpolant function and no entry raises ValueError.
C15_InterpolateRecursion ==
  op = "interpolate" =>
     /\ ret.value.interpolant_fns = args.interpolant_fns
     /\ (C15_N = 0 /\ args.idx_weight_by_varname = <<>>) => ret.raised
     /\ (C15_N >= 1 /\ args.idx_weight_by_varname = <<>>) =>
          /\ ~ret.raised
          /\ \A e \in Range(CallsOn("interpolate")) :
               /\ Len(e.f) + Len(e.aux) = C15_N
               /\ e.key = Len(e.aux)
               /\ e.key <= C15_N
          /\ \E e \in Range(CallsOn("interpolate")) : e.key = C15_N
          /\ \A e \in Range(CallsOn("interpolant_fn")) :
               \E j \in 1..C15_N :
                  /\ e.key = VarNames[j]
                  /\ DictKeys(e.f) = SubSeq(VarNames, 1, j - 1)
          /\ Len(C15_Lookups) = 2 ^ C15_N
          /\ \A i \in DOMAIN C15_Lookups : Len(C15_Lookups[i].f) = C15_N
          /\ ret.value.value = RSum([i \in DOMAIN C15_Lookups |-> C15_Lookups[i].aux])

C15_Witness ==
  /\ op = "interpolate" /\ ~ret.raised
  /\ C15_N = MaxVars /\ args.idx_weight_by_varname = <<>>
  /\ \A j \in 2..C15_N : args.interpolant_fns[j][2].kind = "dependent"
  /\ Len(C15_Lookups) = 2 ^ MaxVars
  /\ \E i, k \in DOMAIN C15_Lookups :
       C15_Lookups[i].aux # Zero /\ C15_Lookups[k].aux # Zero /\ C15_Lookups[i].aux # C15_Lookups[k].aux
C17_Expected(sc, phi) ==
  IF params.use_sgs
    THEN [x \in Cells |->
            RAdd(Diffusivity(sc),
                 TurbulentDiffusivity(phi, ArgStates[Key("u")], ArgStates[Key("v")],
                                      ArgStates[Key("w")])[x])]
    ELSE [x \in Cells |-> Diffusivity(sc)]

C17_DiffusivityIsMolecularOrEddy ==
  (op = "prediction_step" /\ args.closure = 1) =>
     \A p \in PositionsOf("diffusion_fn") :
        trace[p].aux[1] = FMul(C17_Expected(trace[p].key[2], trace[p].f), trace[p].f)
\* C17 (amended): during prediction_step the diffusivity the closure of a
\* scalar is fed under the key 'diffusivity' is the 'diffusivity' entry of
\* additional_states when there is one; otherwise it is the molecular
\* diffusivity of the scalar broadcast to the field when the sub-grid closure
\* is disabled, and the molecular value plus the eddy diffusivity when it is
\* enabled.
C17_DiffusivityUnlessOverridden ==
  (op = "prediction_step" /\ args.closure = 1) =>
     \A p \in PositionsOf("diffusion_fn") :
        trace[p].aux[1] =
          FMul(IF Key("diffusivity") \in DOMAIN ArgAdditional
                 THEN ArgAdditional[Key("diffusivity")]
                 ELSE C17_Expected(trace[p].key[2], trace[p].f),
               trace[p].f)

C17_Witness ==
  /\ PredictionDone /\ args.closure = 1 /\ params.use_sgs
  /\ Key("diffusivity") \in DOMAIN ArgAdditional
  /\ NScalars = MaxScalars
  /\ \A p \in PositionsOf("diffusion_fn") :
       /\ trace[p].aux[1] = FMul(ArgAdditional[Key("diffusivity")], trace[p].f)
       /\ trace[p].aux[1] # FMul(C17_Expected(trace[p].key[2], trace[p].f), trace[p].f)
\* --------------------------------------------------------------------- C18
C18_Hooks == PositionsOf("update_scalar_terms")
C18_AdvancePositions == PositionsOf("time_advance_cn_explicit")

\* The step of the call in progress on an orchestrator without debug hook.
C18_WithoutHook == PredictionStep([Context(args) EXCEPT !.dbg = FALSE])

\* C18: the right-hand side passed to the time advance comes from a non-debug
\* assembly: it is a field, the one scalar_transport_equation made (and
\* update_forcing corrected, with an immersed boundary) just before.  The
\* debug bundle, made after the scalar is advanced and exchanged, holds
\* exactly the seven terms conv_x, conv_y, conv_z, diff_x, diff_y, diff_z and
\* source, as the closure returned them, and making it calls nothing but the
\* closure: no update_forcing.  With a debug hook the advanced rho_<scalar>
\* and <scalar> of every scalar are those of the same step without hook.
C18_DebugNeverAdvances ==
  op = "prediction_step" =>
     /\ \A p \in C18_AdvancePositions :
          /\ DOMAIN trace[p].aux = Cells
          /\ p > 1
          /\ trace[p - 1].fn = IF ib THEN "update_forcing" ELSE "scalar_transport_equation"
          /\ trace[p - 1].key[2] = trace[p].key[2]
          /\ ~ib => trace[p].aux = trace[p - 1].f
          /\ ib => trace[p].aux =
                     IbUpdateForcing(trace[p - 1].key, trace[p - 1].f,
                                     trace[p - 1].aux)[IbRhsName(trace[p - 1].key)]
     /\ ~dbg => C18_Hooks = {}
     /\ Cardinality(PositionsOf("update_forcing")) =
           IF ib THEN Cardinality(C18_AdvancePositions) ELSE 0
     /\ \A q \in C18_Hooks :
          /\ DOMAIN trace[q].f =
               {"conv_x", "conv_y", "conv_z", "diff_x", "diff_y", "diff_z", "source"}
          /\ q > 5
          /\ trace[q - 1].fn = "source_fn" /\ trace[q - 2].fn = "diffusion_fn"
          /\ trace[q - 3].fn = "convection_fn" /\ trace[q - 4].fn = "inplace_halo_exchange"
          /\ trace[q - 5].fn = "time_advance_cn_explicit"
          /\ trace[q].f.conv_x = trace[q - 3].aux[1]
          /\ trace[q].f.conv_y = trace[q - 3].aux[2]
          /\ trace[q].f.conv_z = trace[q - 3].aux[3]
          /\ trace[q].f.diff_x = trace[q - 2].aux[1]
          /\ trace[q].f.diff_y = trace[q - 2].aux[2]
          /\ trace[q].f.diff_z = trace[q - 2].aux[3]
          /\ trace[q].f.source =
               FAdd(IF source[trace[q].key[2]] # None
                      THEN source[trace[q].key[2]] ELSE ZerosLike(Rho),
                    trace[q - 1].aux)
     /\ (dbg /\ ~ret.raised) =>
          /\ Cardinality(C18_Hooks) = NScalars
          /\ ~C18_WithoutHook.raised
          /\ \A i \in 1..NScalars :
               \A k \in {Key(Names[i]), RhoKey(Names[i])} :
                  /\ k \in DOMAIN ret.value <=> k \in DOMAIN C18_WithoutHook.value
                  /\ k \in DOMAIN ret.value => ret.value[k] = C18_WithoutHook.value[k]

C18_Witness ==
  /\ PredictionDone /\ dbg /\ ib /\ args.closure = 1
  /\ NScalars = MaxScalars
  /\ Cardinality(C18_Hooks) = MaxScalars
  /\ Cardinality(PositionsOf("update_forcing")) = MaxScalars
  /\ DOMAIN ret.value # DOMAIN C18_WithoutHook.value
\* --------------------------------------------------------------------- C19
\* The lists that hold the transported scalars in another order.
C19_Permutations == {s \in [1..NScalars -> Range(Names)] : NoRepeat(s)}

\* The map the scalars are advanced to, before the immersed boundary corrects
\* it, in a result of prediction_step.
C19_AdvancedIn(r) ==
  IF ib THEN SelectSeq(r.calls, LAMBDA e : e.fn = "update_states")[1].f ELSE r.value

\* The step of the call in progress with the scalars listed as in names.
C19_Listed(names) ==
  PredictionStep([Context(args) EXCEPT !.params.transport_scalars_names = names])

\* C19: within one prediction_step no scalar's update reads the updated value
\* of another: for every permutation of the transported-scalar list the step
\* advances every scalar, and rho_<scalar> where there is one, to the same
\* value, before the final immersed-boundary correction.
C19_OrderImmaterial ==
  PredictionDone =>
     \A names \in C19_Permutations :
        /\ ~C19_Listed(names).raised
        /\ DOMAIN C19_AdvancedIn(C19_Listed(names)) =
             DOMAIN C19_AdvancedIn([value |-> ret.value, calls |-> trace])
        /\ \A k \in DOMAIN C19_AdvancedIn(C19_Listed(names)) :
             C19_AdvancedIn(C19_Listed(names))[k] =
               C19_AdvancedIn([value |-> ret.value, calls |-> trace])[k]

C19_Witness ==
  /\ PredictionDone /\ args.closure = 1 /\ NScalars = MaxScalars /\ NScalars > 1
  /\ ArgStates # ArgStates0
  /\ \A i \in 1..NScalars :
       C19_AdvancedIn([value |-> ret.value, calls |-> trace])[Key(Names[i])]
          # ArgStates0[Key(Names[i])]
  /\ \E names \in C19_Permutations : names # Names
\* --------------------------------------------------------------------- C20
\* The calls a correction_step makes for one scalar.
C20_PerScalar == IF ib THEN 2 ELSE 1

\* The position in the trace of the halo exchange of the i-th scalar.
C20_ExchangeAt(i) == i * C20_PerScalar

\* C20: in a correction_step, for every transported scalar in list order,
\* rho_<scalar> is divided by the density, then the immersed boundary's
\* update_states is called on the quotient if a corrector is configured, then
\* the halos of the result are exchanged; no halo exchange of a scalar comes
\* before that scalar's immersed-boundary correction, and the returned map
\* holds exactly the transported scalar names.
C20_CorrectionOrder ==
  CorrectionDone =>
     /\ Len(trace) = NScalars * C20_PerScalar
     /\ DOMAIN ret.value = {Key(Names[i]) : i \in 1..NScalars}
     /\ \A i \in 1..NScalars :
          /\ trace[C20_ExchangeAt(i)].fn = "inplace_halo_exchange"
          /\ trace[C20_ExchangeAt(i)].key = Key(Names[i])
          /\ ret.value[Key(Names[i])] =
               InplaceHaloExchange(trace[C20_ExchangeAt(i)].f, bc[Names[i]])
          /\ ~ib => trace[C20_ExchangeAt(i)].f = FDiv(ArgStates[RhoKey(Names[i])], Rho)
          /\ ib =>
               /\ trace[C20_ExchangeAt(i) - 1].fn = "update_states"
               /\ trace[C20_ExchangeAt(i) - 1].key = Key(Names[i])
               /\ trace[C20_ExchangeAt(i) - 1].f = FDiv(ArgStates[RhoKey(Names[i])], Rho)
               /\ trace[C20_ExchangeAt(i) - 1].aux = bc
               /\ trace[C20_ExchangeAt(i)].f =
                    IbUpdateStates(Single(Key(Names[i]), trace[C20_ExchangeAt(i) - 1].f),
                                   ArgAdditional, bc)[Key(Names[i])]
               /\ \A p \in PositionsOf("inplace_halo_exchange") :
                    \A q \in PositionsOf("update_states") :
                       trace[p].key = trace[q].key => q < p

C20_Witness ==
  /\ CorrectionDone /\ ib /\ NScalars = MaxScalars /\ NScalars > 1
  /\ \A i \in 1..NScalars :
       /\ trace[C20_ExchangeAt(i)].f # trace[C20_ExchangeAt(i) - 1].f
       /\ ret.value[Key(Names[i])] # trace[C20_ExchangeAt(i)].f
       /\ SolidCells(ArgAdditional) # {}
\* --------------------------------------------------------------------- C21
\* C21: the boundary-condition and source registries are read-only during the
\* step: only prestep changes them, and every prediction_step and
\* correction_step, one that ends in an error included, leaves both exactly
\* as they were before the call.
C21_RegistriesReadOnly ==
  [][ /\ op' \in {"prediction_step", "correction_step"} => (bc' = bc /\ source' = source)
      /\ (bc' # bc \/ source' # source) => op' = "prestep" ]_vars

\* A prediction_step has ended in an error, with registries a prestep has
\* changed and a scalar whose source is absent.
C21_Witness ==
  /\ op = "prediction_step" /\ ret.raised
  /\ bc # InitBc(params) /\ source # InitSource(params)
  /\ \E i \in 1..NScalars : source[Names[i]] = None
  /\ \E i \in 1..NScalars : source[Names[i]] # None
\* --------------------------------------------------------------------- C22
\* C22 (as claimed): for every combination of modify_indiviual, read_uq_file
\* and n_samples_uq, the three arrays generate_samples returns have one
\* length, which is number_of_samples(), and therefore the number of prefixes
\* generate_data_dump_prefixes returns.
C22_SampleCountIsNumberOfSamples ==
  op = "generate_samples" =>
     /\ \A j \in 1..3 : Len(ret.value[j]) = NumberOfSamples(params)
     /\ \A data_dump_prefix \in DataDumpPrefixes :
          Len(GenerateDataDumpPrefixes(params, data_dump_prefix)) = Len(ret.value[1])
====
